---- MODULE Spec2Model ----
(***************************************************************************)
(* A model of the starlarkgroup package: a Group that records calls with   *)
(* go() and runs them, rate limited, on wait().  The script thread, the    *)
(* goroutines the errgroup spawns, the bound context and the token bucket  *)
(* of the limiter are the processes and objects of the model.              *)
(***************************************************************************)
EXTENDS Integers, Sequences, FiniteSets, TLC

\* ---------------------------------------------------------------- bounds
MaxCalls == 2       \* go() calls that register a task
MaxCap == 1         \* largest "n" given to the constructor
MaxBurst == 1       \* largest "burst" given to the constructor
MaxTime == 2        \* clock ticks observed while wait() runs
MaxListLen == 2     \* largest length the script's list grows to
Interval == 2       \* ticks of the configured "every" duration

None == "none"

\* ---------------------------------------------------------------- values
\* Starlark values of the script, as [t, v]: ints, strings (keyword names),
\* the callables square / len / fail, and one mutable list, L.
IntV(x) == [t |-> "int", v |-> x]
StrV(x) == [t |-> "str", v |-> x]
Fn(x) == [t |-> "fn", v |-> x]
NoValue == [t |-> "none", v |-> 0]
L == [t |-> "list", v |-> 0]
Square == Fn(1)     \* def square(x): return x*x
LenFn == Fn(2)      \* the builtin len
Fail == Fn(3)       \* def fail(): a function that returns an error
IsCallable(v) == v.t = "fn"
IsBuiltin(fn) == fn = LenFn

\* What go() is called with: the positional arguments (the function first)
\* and the keyword arguments, as <<name, value>> pairs.
GoInputs ==
    { [args |-> <<>>, kwargs |-> <<>>],
      [args |-> <<IntV(7)>>, kwargs |-> <<>>],
      [args |-> <<Square, IntV(2)>>, kwargs |-> <<>>],
      [args |-> <<LenFn, L>>, kwargs |-> <<>>],
      [args |-> <<Fail>>, kwargs |-> <<>>],
      [args |-> <<LenFn>>, kwargs |-> << <<StrV(1), L>> >>],
      [args |-> <<Square>>, kwargs |-> << <<StrV(1), IntV(2)>> >>] }

VARIABLES
    cap,        \* the "n" keyword the script gave to group()
    everyArg,   \* the "every" keyword the script gave to group()
    n,          \* Group.n
    limit,      \* limiter's rate: 0 is rate.Inf, otherwise ticks per token
    burst,      \* limiter's burst
    tokens,     \* limiter's tokens, in units of 1/limit of a token
    last,       \* limiter's time of the last token update
    now,        \* the clock
    ctxErr,     \* g.ctx.Err(): None or "Canceled"
    ctxCause,   \* what cancelled g.ctx: None, "parent", "error" or "joined"
    frozen,     \* Group.frozen
    calls,      \* Group.calls: sequence of [fn, args, kwargs]
    list,       \* the script's list L: [len, frozen]
    pc,         \* where the script thread is
    i,          \* index of group_wait's loop (1-based)
    timeToAct,  \* when the limiter's reservation may act
    elems,      \* group_wait's elems: a slot per call
    task,       \* per call: the state of the goroutine running it
    groupErr,   \* errgroup's first error
    panicked,   \* a goroutine panicked: the process is gone
    queue,      \* group_wait's queue: [made, buf, closed]
    worker,     \* per pool goroutine: [st, call], st None, "idle", "busy", "exited"
    waitRet,    \* what the last wait() returned
    hist        \* history of the run, for stating the properties

vars == <<cap, everyArg, n, limit, burst, tokens, last, now, ctxErr, ctxCause, frozen,
          calls, list, pc, i, timeToAct, elems, task, groupErr, panicked,
          queue, worker, waitRet, hist>>

limiterVars == <<limit, burst, tokens, last, timeToAct>>
ctxVars == <<ctxErr, ctxCause>>
groupVars == <<task, groupErr, elems, panicked, queue, worker>>

Range(s) == {s[k] : k \in 1..Len(s)}

\* ------------------------------------------------------------ constructor
\* rate.Every(d): a positive interval is a finite rate, anything else rate.Inf.
Every(d) == IF d <= 0 THEN 0 ELSE d

\* The Group.n that NewGroup builds from its parameter n: the composite
\* literal sets ctx, group and limiter only, so n keeps its zero value.
NewGroupN(nArg) == 0

\* The fields of the limiter rate.NewLimiter(r, b) builds; the bucket is full
\* at its first use.
NewLimiter(r, b) == [limit |-> r, burst |-> b, tokens |-> b * r, last |-> 0]

\* The "every" strings given to group(), as [kind, d]: the empty string, a
\* string that is no duration, and durations of d ticks ("0s", "-1", ...).
EveryEmpty == [kind |-> "empty", d |-> 0]
EveryBad == [kind |-> "bad", d |-> 0]
Duration(d) == [kind |-> "duration", d |-> d]

\* time.ParseDuration(every): [err, d].
ParseDuration(every) ==
    IF every.kind = "duration"
    THEN [err |-> None, d |-> every.d]
    ELSE [err |-> "ParseError", d |-> 0]

\* The error Make returns, or None: only the failure to parse "every".
MakeError(every) ==
    IF every.kind = "empty" THEN None ELSE ParseDuration(every).err

\* The rate Make gives to NewGroup: rate.Inf unless "every" is set.
MakeRate(every) ==
    IF every.kind = "empty" THEN 0 ELSE Every(ParseDuration(every).d)

\* group(n, every, burst): when Make fails there is no group, and the script
\* is left with the error.
Make(nArg, every, burstArg) ==
    LET lim == NewLimiter(MakeRate(every), burstArg)
        ok == MakeError(every) = None
    IN  /\ cap = nArg
        /\ pc = IF ok THEN "script" ELSE "failed"
        /\ n = IF ok THEN NewGroupN(nArg) ELSE 0
        /\ limit = IF ok THEN lim.limit ELSE 0
        /\ burst = IF ok THEN lim.burst ELSE 0
        /\ tokens = IF ok THEN lim.tokens ELSE 0
        /\ last = IF ok THEN lim.last ELSE 0

\* The rate options given to group(): no interval, an unparseable one, a
\* zero or negative one, or an interval with a burst (the burst is not read
\* when the rate is rate.Inf).
Configs ==
    {[every |-> e, burst |-> 0] :
        e \in {EveryEmpty, EveryBad, Duration(0), Duration(0 - 1)}}
        \cup {[every |-> Duration(Interval), burst |-> b] : b \in 0..MaxBurst}

\* hist.given[k]: what the k-th registering go() was given, and the length L
\* had then.  hist.invoked[k]: what the k-th call's function was called with.
\* hist.returned[k]: what it returned.
NotInvoked == [called |-> FALSE, args |-> <<>>, kwargs |-> <<>>, len |-> 0,
               frozen |-> FALSE]
NotReturned == [done |-> FALSE, err |-> None, val |-> NoValue]

\* hist.lateGo: the last go() on a frozen group; hist.cancelledGo: the last
\* go() of a callable on an unfrozen group whose context was cancelled;
\* hist.lateWait: the last wait() on a frozen group.
NoGo == [err |-> None, grew |-> FALSE, callable |-> FALSE]
NoLate == [err |-> None, ran |-> FALSE]
NoRet == [state |-> None, err |-> None, val |-> <<>>]

Init ==
    /\ \E nArg \in {0, MaxCap}, c \in Configs :
          /\ Make(nArg, c.every, c.burst)
          /\ everyArg = c.every
    /\ now = 0
    /\ ctxErr = None
    /\ ctxCause = None
    /\ frozen = FALSE
    /\ calls = <<>>
    /\ list = [len |-> 1, frozen |-> FALSE]
    /\ i = 0
    /\ timeToAct = 0
    /\ elems = <<>>
    /\ task = [k \in 1..MaxCalls |-> None]
    /\ groupErr = None
    /\ panicked = FALSE
    /\ queue = [made |-> FALSE, buf |-> <<>>, closed |-> FALSE]
    /\ worker = [k \in 1..MaxCalls |-> [st |-> None, call |-> 0]]
    /\ waitRet = NoRet
    /\ hist = [given |-> <<>>, invoked |-> [k \in 1..MaxCalls |-> NotInvoked],
               returned |-> [k \in 1..MaxCalls |-> NotReturned],
               order |-> <<>>, errDuring |-> FALSE,
               admitted |-> 0, waitStart |-> 0, waits |-> 0,
               lateGo |-> NoGo, cancelledGo |-> NoGo, lateWait |-> NoLate,
               refused |-> FALSE, atErr |-> 0 - 1,
               ctxAtWait |-> FALSE,
               invocations |-> [k \in 1..MaxCalls |-> 0],
               writes |-> [k \in 1..MaxCalls |-> <<>>]]

\* ------------------------------------------------------------- group_go
\* A variant of FreezeArgs that freezes nothing.
FreezeArgsNone(args, l) == l

\* Tuple.Freeze over the positional arguments: the list is frozen when it is
\* one of them.
FreezeArgs(args, l) ==
    IF L \in Range(args) THEN [l EXCEPT !.frozen = TRUE] ELSE l

\* The kwargs group_go keeps: the parameter is replaced by a fresh slice of
\* len(kwargs) nil tuples before the loop that freezes and copies, so each
\* kept entry is an empty tuple.
StoredKwargs(kwargs) == [j \in 1..Len(kwargs) |-> <<>>]

\* The loop "kwarg.Freeze()" over the kept kwargs: the list is frozen when
\* it is a value of one of them.
FreezeKwargs(kwargs, l) ==
    IF \E j \in 1..Len(kwargs) : L \in Range(kwargs[j])
    THEN [l EXCEPT !.frozen = TRUE] ELSE l

\* append(g.calls, callable{fn, args[1:], kwargs})
Register(cs, args, kwargs) ==
    Append(cs, [fn |-> args[1], args |-> Tail(args), kwargs |-> kwargs])

\* Does the value L occur among what go() was given?
GivenList(args, kwargs) ==
    \/ L \in Range(args)
    \/ \E j \in 1..Len(kwargs) : L \in Range(kwargs[j])

\* A variant of GoError without the frozen check.
GoErrorUnfrozen(args, isFrozen) ==
    IF Len(args) = 0 THEN "MissingArg"
    ELSE IF ~IsCallable(args[1]) THEN "NotCallable"
    ELSE None

\* The error go() returns before it touches the group, or None.
GoError(args, isFrozen) ==
    IF Len(args) = 0 THEN "MissingArg"
    ELSE IF ~IsCallable(args[1]) THEN "NotCallable"
    ELSE IF isFrozen THEN "Frozen"
    ELSE None

\* A variant of Registers that ignores the context.
RegistersAlways(err, cerr) == err = None

\* go() appends the call when nothing failed and the context is not done.
Registers(err, cerr) == err = None /\ cerr = None

\* A variant of GoTasks that runs the call just registered at once.
GoTasksEager(t, cs) ==
    IF Len(cs) > 0 /\ t[Len(cs)] = None
    THEN [t EXCEPT ![Len(cs)] = "spawned"] ELSE t

\* group_go starts no goroutine: the states of the goroutines after it.
GoTasks(t, cs) == t

Go(inp) ==
    LET err == GoError(inp.args, frozen)
        kw == StoredKwargs(inp.kwargs)
        registers == Registers(err, ctxErr)
        ret == [err |-> IF err = None THEN "ok" ELSE err,
                grew |-> calls' # calls,
                callable |-> Len(inp.args) > 0 /\ IsCallable(inp.args[1])]
    IN  /\ pc = "script"
        /\ ~panicked
        /\ registers => Len(calls) < MaxCalls
        /\ list' = IF err = None
                   THEN FreezeKwargs(kw, FreezeArgs(inp.args, list))
                   ELSE list
        /\ calls' = IF registers THEN Register(calls, inp.args, kw) ELSE calls
        /\ hist' = [hist EXCEPT
                      !.given = IF registers
                                THEN Append(@, [args |-> Tail(inp.args),
                                                kwargs |-> inp.kwargs,
                                                len |-> list.len])
                                ELSE @,
                      !.lateGo = IF frozen THEN ret ELSE @,
                      !.cancelledGo =
                          IF ~frozen /\ ctxErr # None /\ Len(inp.args) > 0
                             /\ IsCallable(inp.args[1])
                          THEN ret ELSE @]
        /\ task' = GoTasks(task, calls')
        /\ UNCHANGED <<cap, everyArg, n, limiterVars, now, ctxVars, frozen, pc, i,
                       groupErr, elems, panicked, queue, worker, waitRet>>

\* The script appends to its list: List.append fails on a frozen list
\* (hist.refused: it failed so before wait() was called).
ListAppend ==
    /\ pc = "script"
    /\ ~panicked
    /\ list.frozen \/ list.len < MaxListLen
    /\ list' = IF list.frozen THEN list ELSE [list EXCEPT !.len = @ + 1]
    /\ hist' = [hist EXCEPT !.refused = @ \/ (list.frozen /\ ~frozen)]
    /\ UNCHANGED <<cap, everyArg, n, limiterVars, now, ctxVars, frozen, calls, pc, i,
                   groupVars, waitRet>>

\* The host cancels the context the group was made with.
CtxCancel ==
    /\ ~panicked
    /\ ctxErr = None
    /\ ctxErr' = "Canceled"
    /\ ctxCause' = "parent"
    /\ UNCHANGED <<cap, everyArg, n, limiterVars, now, frozen, calls, list, pc, i,
                   groupVars, waitRet, hist>>

\* ----------------------------------------------------------- starlark.Call
\* Binding a nil keyword pair panics in a def function (the pair is indexed);
\* a builtin rejects keyword arguments with an error.
CallPanics(fn, kwargs) ==
    /\ ~IsBuiltin(fn)
    /\ \E j \in 1..Len(kwargs) : Len(kwargs[j]) < 2

\* What fn(*args, **kwargs) returns, the list having length len: [err, val].
CallResult(fn, args, kwargs, len) ==
    LET bad == [err |-> "BadCall", val |-> NoValue]
        bound == args \o [j \in 1..Len(kwargs) |-> kwargs[j][2]]
    IN  IF \E j \in 1..Len(kwargs) : Len(kwargs[j]) < 2 THEN bad
        ELSE IF fn = Fail THEN [err |-> "TaskError", val |-> NoValue]
        ELSE IF fn = Square
             THEN IF Len(bound) = 1 /\ bound[1].t = "int"
                  THEN [err |-> None, val |-> IntV(bound[1].v * bound[1].v)]
                  ELSE bad
        ELSE IF Len(kwargs) = 0 /\ args = <<L>>
             THEN [err |-> None, val |-> IntV(len)]
             ELSE bad

\* ------------------------------------------------------------ rate.Limiter
\* Limiter.Wait refuses at once a request the bucket can never hold.
ExceedsBurst(r, b) == r # 0 /\ 1 > b

\* The tokens at time t: one token (r units) per r ticks, at most the burst.
Advance(r, b, tok, lst, t) ==
    LET x == tok + (t - lst) IN IF x > b * r THEN b * r ELSE x

\* A variant of Reserve that never makes the caller wait.
ReserveNoDelay(r, b, tok, lst, t) ==
    [tokens |-> Advance(r, b, tok, lst, t) - r, delay |-> 0]

\* Reserving one token at time t: the tokens left (negative when the token
\* is owed) and the delay until the reservation may act.
Reserve(r, b, tok, lst, t) ==
    LET left == Advance(r, b, tok, lst, t) - r
    IN  [tokens |-> left, delay |-> IF left < 0 THEN 0 - left ELSE 0]

\* ----------------------------------------------------------- group_wait
WaitReturn(err, val) == [state |-> "returned", err |-> err, val |-> val]

\* A variant of MakeElems that allocates one slot too few.
MakeElemsShort(cs) ==
    [k \in 1..(IF Len(cs) = 0 THEN 0 ELSE Len(cs) - 1) |-> NoValue]

\* elems := make([]starlark.Value, len(g.calls))
MakeElems(cs) == [k \in 1..Len(cs) |-> NoValue]

\* A variant of LoopStart that goes to the limiter before the loop's test.
LoopStartAlways(cs) == "limiter"

\* for i, v := range g.calls: the loop is entered when there is a call.
LoopStart(cs) == IF Len(cs) = 0 THEN "close" ELSE "limiter"

\* group_wait up to its loop: the frozen check, g.Freeze(), elems
\* (hist.ctxAtWait: the context was done already when wait() was called).
WaitCall ==
    /\ pc = "script"
    /\ ~panicked
    /\ IF frozen
       THEN /\ UNCHANGED <<frozen, elems, i, pc, waitRet>>
            /\ hist' = [hist EXCEPT !.lateWait =
                          [err |-> "Frozen", ran |-> pc' # pc]]
       ELSE /\ frozen' = TRUE
            /\ elems' = MakeElems(calls)
            /\ i' = 1
            /\ pc' = LoopStart(calls)
            /\ waitRet' = NoRet
            /\ hist' = [hist EXCEPT !.waits = @ + 1, !.waitStart = now,
                                    !.ctxAtWait = ctxErr # None]
    /\ UNCHANGED <<cap, everyArg, n, limiterVars, now, ctxVars, calls, list, task,
                   groupErr, panicked, queue, worker>>

\* g.limiter.Wait(g.ctx) up to its timer: an error returns from group_wait.
LimiterWait ==
    /\ pc = "limiter"
    /\ ~panicked
    /\ IF ExceedsBurst(limit, burst)
       THEN /\ waitRet' = WaitReturn("ExceedsBurst", <<>>)
            /\ pc' = "script"
            /\ UNCHANGED <<tokens, last, timeToAct, hist>>
       ELSE IF ctxErr # None
       THEN /\ waitRet' = WaitReturn(ctxErr, <<>>)
            /\ pc' = "script"
            /\ UNCHANGED <<tokens, last, timeToAct, hist>>
       ELSE IF limit = 0
       THEN /\ pc' = "dispatch"
            /\ hist' = [hist EXCEPT !.admitted = @ + 1]
            /\ UNCHANGED <<tokens, last, timeToAct, waitRet>>
       ELSE LET r == Reserve(limit, burst, tokens, last, now)
            IN  /\ tokens' = r.tokens
                /\ last' = now
                /\ timeToAct' = now + r.delay
                /\ pc' = IF r.delay = 0 THEN "dispatch" ELSE "sleep"
                /\ hist' = IF r.delay = 0
                           THEN [hist EXCEPT !.admitted = @ + 1] ELSE hist
                /\ UNCHANGED waitRet
    /\ UNCHANGED <<cap, everyArg, n, limit, burst, now, ctxVars, frozen, calls, list, i,
                   groupVars>>

\* The limiter's timer fires: Wait returns nil.
LimiterWake ==
    /\ pc = "sleep"
    /\ ~panicked
    /\ now >= timeToAct
    /\ pc' = "dispatch"
    /\ hist' = [hist EXCEPT !.admitted = @ + 1]
    /\ UNCHANGED <<cap, everyArg, n, limiterVars, now, ctxVars, frozen, calls, list, i,
                   groupVars, waitRet>>

\* The context is done while the limiter sleeps: Wait returns ctx.Err().
LimiterCancel ==
    /\ pc = "sleep"
    /\ ~panicked
    /\ ctxErr # None
    /\ waitRet' = WaitReturn(ctxErr, <<>>)
    /\ pc' = "script"
    /\ UNCHANGED <<cap, everyArg, n, limiterVars, now, ctxVars, frozen, calls, list, i,
                   groupVars, hist>>

\* Time passes while the dispatch loop is at the limiter.
Tick ==
    /\ pc \in {"limiter", "sleep"}
    /\ ~panicked
    /\ limit # 0
    /\ now < MaxTime
    /\ now' = now + 1
    /\ UNCHANGED <<cap, everyArg, n, limiterVars, ctxVars, frozen, calls, list, pc, i,
                   groupVars, waitRet, hist>>

\* The loop moves to its next call, or ends.
LoopNext(cs, k) == IF k + 1 > Len(cs) THEN "close" ELSE "limiter"

\* The dispatch of call i once admitted: g.group.Go(call) when g.n <= 0;
\* otherwise the queue is made at the first call and a pool goroutine is
\* started for each of the first g.n calls, before the send.
Dispatch ==
    /\ pc = "dispatch"
    /\ ~panicked
    /\ IF n <= 0
       THEN /\ task' = [task EXCEPT ![i] = "spawned"]
            /\ i' = i + 1
            /\ pc' = LoopNext(calls, i)
            /\ UNCHANGED <<queue, worker>>
       ELSE /\ queue' = IF i = 1 THEN [queue EXCEPT !.made = TRUE] ELSE queue
            /\ worker' = IF i <= n
                         THEN [worker EXCEPT ![i] = [st |-> "idle", call |-> 0]]
                         ELSE worker
            /\ pc' = "send"
            /\ UNCHANGED <<task, i>>
    /\ UNCHANGED <<cap, everyArg, n, limiterVars, now, ctxVars, frozen, calls, list,
                   elems, groupErr, panicked, waitRet, hist>>

\* select: queue <- call
Send ==
    /\ pc = "send"
    /\ ~panicked
    /\ Len(queue.buf) < n
    /\ queue' = [queue EXCEPT !.buf = Append(@, i)]
    /\ task' = [task EXCEPT ![i] = "queued"]
    /\ i' = i + 1
    /\ pc' = LoopNext(calls, i)
    /\ UNCHANGED <<cap, everyArg, n, limiterVars, now, ctxVars, frozen, calls, list,
                   elems, groupErr, panicked, worker, waitRet, hist>>

\* select: <-g.ctx.Done(): group_wait returns ctx.Err()
SendCancel ==
    /\ pc = "send"
    /\ ~panicked
    /\ ctxErr # None
    /\ waitRet' = WaitReturn(ctxErr, <<>>)
    /\ pc' = "script"
    /\ UNCHANGED <<cap, everyArg, n, limiterVars, now, ctxVars, frozen, calls, list, i,
                   groupVars, hist>>

\* A pool goroutine receives the next call from the queue.
WorkerRecv(w) ==
    /\ ~panicked
    /\ worker[w].st = "idle"
    /\ Len(queue.buf) > 0
    /\ worker' = [worker EXCEPT ![w] = [st |-> "busy", call |-> Head(queue.buf)]]
    /\ task' = [task EXCEPT ![Head(queue.buf)] = "spawned"]
    /\ queue' = [queue EXCEPT !.buf = Tail(@)]
    /\ UNCHANGED <<cap, everyArg, n, limiterVars, now, ctxVars, frozen, calls, list, pc,
                   i, elems, groupErr, panicked, waitRet,
                   hist>>

\* A pool goroutine finds the queue closed and empty: its range loop ends.
WorkerExit(w) ==
    /\ ~panicked
    /\ worker[w].st = "idle"
    /\ Len(queue.buf) = 0
    /\ queue.closed
    /\ worker' = [worker EXCEPT ![w].st = "exited"]
    /\ UNCHANGED <<cap, everyArg, n, limiterVars, now, ctxVars, frozen, calls, list, pc,
                   i, elems, task, groupErr, panicked, queue, waitRet, hist>>

\* The closure of call k starts: starlark.Call(thread, fn, args, kwargs).
TaskStart(k) ==
    /\ ~panicked
    /\ task[k] = "spawned"
    /\ hist' = [hist EXCEPT !.invoked[k] =
                  [called |-> TRUE, args |-> calls[k].args,
                   kwargs |-> calls[k].kwargs, len |-> list.len,
                   frozen |-> frozen],
                             !.invocations[k] = @ + 1]
    /\ IF CallPanics(calls[k].fn, calls[k].kwargs)
       THEN /\ panicked' = TRUE
            /\ UNCHANGED task
       ELSE /\ task' = [task EXCEPT ![k] = "running"]
            /\ UNCHANGED panicked
    /\ UNCHANGED <<cap, everyArg, n, limiterVars, now, ctxVars, frozen, calls, list, pc,
                   i, elems, groupErr, queue, worker, waitRet>>

\* A variant of StoreResult that fills the slots in the order of completion.
StoreResultNext(es, k, v) ==
    LET free == {j \in 1..Len(es) : es[j] = NoValue}
    IN  IF free = {} THEN es
        ELSE [es EXCEPT ![CHOOSE j \in free : \A m \in free : j <= m] = v]

\* elems[i] = v
StoreResult(es, k, v) == [es EXCEPT ![k] = v]

\* The pool goroutine running call k, after the call: it returns the call's
\* error, or goes on with its loop.
AfterCall(ws, k, err) ==
    [w \in DOMAIN ws |->
        IF ws[w].st = "busy" /\ ws[w].call = k
        THEN [st |-> IF err = None THEN "idle" ELSE "exited", call |-> 0]
        ELSE ws[w]]

\* The slots of elems a step has written: es before it, es2 after it.
Written(es, es2) == {j \in 1..Len(es) : es2[j] # es[j]}

\* The number of calls the loop has handed to g.group.Go so far.
Dispatched == Cardinality({j \in DOMAIN task : task[j] # None})

\* The closure of call k returns: the value goes to its slot; an error goes
\* to the errgroup, whose first error cancels the context (hist.atErr: the
\* calls dispatched when the first error was returned; hist.writes: for each
\* slot of elems, the calls that wrote it).
TaskReturn(k) ==
    LET r == CallResult(calls[k].fn, calls[k].args, calls[k].kwargs,
                        hist.invoked[k].len)
    IN  /\ ~panicked
        /\ task[k] = "running"
        /\ task' = [task EXCEPT ![k] = "done"]
        /\ worker' = AfterCall(worker, k, r.err)
        /\ IF r.err = None
           THEN /\ elems' = StoreResult(elems, k, r.val)
                /\ UNCHANGED <<groupErr, ctxVars>>
           ELSE /\ groupErr' = IF groupErr = None THEN r.err ELSE groupErr
                /\ ctxErr' = IF groupErr = None THEN "Canceled" ELSE ctxErr
                /\ ctxCause' = IF groupErr = None /\ ctxErr = None
                               THEN "error" ELSE ctxCause
                /\ UNCHANGED elems
        /\ hist' = [hist EXCEPT
                      !.returned[k] = [done |-> TRUE, err |-> r.err, val |-> r.val],
                      !.order = Append(@, k),
                      !.errDuring = @ \/ (r.err # None /\ pc # "script"),
                      !.atErr = IF r.err # None /\ @ < 0 THEN Dispatched ELSE @,
                      !.writes = [j \in DOMAIN @ |->
                                    IF j \in Written(elems, elems')
                                    THEN Append(@[j], k) ELSE @[j]]]
        /\ UNCHANGED <<cap, everyArg, n, limiterVars, now, frozen, calls, list, pc, i,
                       panicked, queue, waitRet>>

\* if queue != nil { close(queue) }
Close ==
    /\ pc = "close"
    /\ ~panicked
    /\ queue' = IF queue.made THEN [queue EXCEPT !.closed = TRUE] ELSE queue
    /\ pc' = "join"
    /\ UNCHANGED <<cap, everyArg, n, limiterVars, now, ctxVars, frozen, calls, list, i,
                   elems, task, groupErr, panicked, worker, waitRet, hist>>

\* Every goroutine the errgroup started has returned.
Joined ==
    /\ \A w \in DOMAIN worker : worker[w].st \in {None, "exited"}
    /\ n <= 0 => \A k \in DOMAIN task : task[k] \in {None, "done"}

\* g.group.Wait() returns: the context is cancelled, and group_wait returns
\* the first error, or the tuple of elems.
Join ==
    /\ pc = "join"
    /\ ~panicked
    /\ Joined
    /\ ctxErr' = "Canceled"
    /\ ctxCause' = IF ctxErr = None THEN "joined" ELSE ctxCause
    /\ waitRet' = IF groupErr # None
                  THEN WaitReturn(groupErr, <<>>)
                  ELSE WaitReturn(None, elems)
    /\ pc' = "script"
    /\ UNCHANGED <<cap, everyArg, n, limiterVars, now, frozen, calls, list, i,
                   groupVars, hist>>

Next ==
    \/ \E inp \in GoInputs : Go(inp)
    \/ ListAppend
    \/ CtxCancel
    \/ WaitCall
    \/ LimiterWait
    \/ LimiterWake
    \/ LimiterCancel
    \/ Tick
    \/ Dispatch
    \/ \E k \in 1..MaxCalls : TaskStart(k)
    \/ \E k \in 1..MaxCalls : TaskReturn(k)
    \/ Close
    \/ Join

Spec == Init /\ [][Next]_vars

\* ================================================================ claims
Returned == waitRet.state = "returned"
Running == {k \in 1..MaxCalls : task[k] = "running"}

\* Call k returns a value, whatever the interleaving.
Succeeds(k) ==
    /\ ~CallPanics(calls[k].fn, calls[k].kwargs)
    /\ CallResult(calls[k].fn, calls[k].args, calls[k].kwargs, list.len).err = None

\* C1: the sequence wait() returns has one element per registered call, the
\* k-th being the value the k-th call's function returned, whatever the order
\* in which the calls completed; and when every registered call's function
\* succeeds, the host does not cancel the context and the limiter can admit,
\* wait() does return a sequence.
C1_ResultsInRegistrationOrder ==
    /\ (Returned /\ waitRet.err = None) =>
          /\ Len(waitRet.val) = Len(calls)
          /\ \A k \in 1..Len(calls) :
                /\ hist.returned[k].done
                /\ hist.returned[k].err = None
                /\ waitRet.val[k] = hist.returned[k].val
    /\ (/\ Returned
        /\ \A k \in 1..Len(calls) : Succeeds(k)
        /\ ctxCause # "parent"
        /\ ~ExceedsBurst(limit, burst)) => waitRet.err = None

\* Two calls with different values completed in the reverse order and wait()
\* returned their values.
C1_Witness ==
    /\ Returned
    /\ waitRet.err = None
    /\ hist.order = <<2, 1>>
    /\ waitRet.val[1] # waitRet.val[2]

\* C2: with a cap n > 0 given to the constructor, at most n call bodies run
\* at any time.
C2_AtMostCapRunning ==
    cap > 0 => Cardinality(Running) <= cap

\* C3: when a call's function returns an error while wait() runs, wait()
\* returns the error of one of the calls, not the context's, and no results.
C3_WaitReturnsTaskError ==
    (/\ Returned
     /\ hist.errDuring
     /\ ctxCause # "parent"
     /\ \A k \in 1..Len(calls) : calls[k].kwargs = <<>>) =>
        /\ waitRet.val = <<>>
        /\ \E k \in 1..Len(calls) :
              hist.returned[k].done /\ hist.returned[k].err = waitRet.err

\* C4: no call's function is invoked, and no goroutine exists for it, before
\* wait() has been called.
C4_NothingRunsBeforeWait ==
    \A k \in 1..MaxCalls :
        (task[k] # None \/ hist.invoked[k].called \/ hist.returned[k].done)
            => (hist.waits > 0 /\ frozen /\ k <= Len(calls))

\* Calls are registered, wait() has not been called, nothing has run; and
\* later a call registered so is invoked.
C4_Witness ==
    /\ Len(calls) = MaxCalls
    /\ ~frozen
    /\ \A k \in 1..MaxCalls : task[k] = None /\ ~hist.invoked[k].called

\* The frozen flag is set by the first wait() and stays set; a later wait()
\* fails with the frozen error and does not enter the loop; a go() on the
\* frozen group registers nothing.
FrozenForGood ==
    /\ hist.waits <= 1
    /\ frozen <=> hist.waits = 1
    /\ hist.lateWait.err \in {None, "Frozen"}
    /\ ~hist.lateWait.ran
    /\ ~hist.lateGo.grew

\* C5, as claimed: the frozen flag is set once, by the first wait(), for
\* good; after it every go() fails with the frozen error and registers
\* nothing, and every wait() fails with the frozen error and runs nothing.
C5_EveryLateGoFrozenError ==
    /\ FrozenForGood
    /\ hist.lateGo.err \in {None, "Frozen"}

\* C5, amended: as claimed, except that a go() on the frozen group fails with
\* the frozen error when its first argument is callable, and with the
\* argument's error (missing or not callable) otherwise.
C5_FrozenOnce ==
    /\ FrozenForGood
    /\ hist.lateGo.err # "ok"
    /\ hist.lateGo.callable => hist.lateGo.err = "Frozen"

\* After wait() a go() of a callable failed with the frozen error, a go() of
\* a non-callable failed, and a second wait() failed.
C5_Witness ==
    /\ hist.lateGo.err = "Frozen"
    /\ hist.lateWait.err = "Frozen"
    /\ Returned
    /\ Len(calls) = 1

\* C6: a value given to a registering go(), by position or by keyword, is
\* not mutated afterwards: the list keeps the length it had at go(), so that
\* is the length the call's function finds.
C6_ArgumentsFrozenAtGo ==
    \A k \in 1..Len(hist.given) :
        GivenList(hist.given[k].args, hist.given[k].kwargs) =>
            /\ list.len = hist.given[k].len
            /\ hist.invoked[k].called => hist.invoked[k].len = hist.given[k].len

\* C7: a call's function is invoked with the positional and the keyword
\* arguments its go() was given.
C7_InvokedWithGivenArguments ==
    \A k \in 1..Len(calls) :
        hist.invoked[k].called =>
            /\ hist.invoked[k].args = hist.given[k].args
            /\ hist.invoked[k].kwargs = hist.given[k].kwargs

\* C8: wait() fails only with the frozen error of a repeated wait, with the
\* error a call's function returned, or with the context's error.
C8_OnlyDeclaredErrors ==
    /\ hist.lateWait.err \in {None, "Frozen"}
    /\ (Returned /\ waitRet.err # None) =>
          \/ waitRet.err = ctxErr
          \/ \E k \in 1..Len(calls) :
                hist.returned[k].done /\ hist.returned[k].err = waitRet.err

\* C9: with an interval configured, the calls admitted by the limiter since
\* wait() started number at most burst + floor(elapsed / interval).
C9_AdmissionRate ==
    limit # 0 => hist.admitted <= burst + ((now - hist.waitStart) \div limit)

\* A call beyond the burst was admitted, after the interval it had to wait.
C9_Witness ==
    /\ limit # 0
    /\ burst >= 1
    /\ hist.admitted = burst + 1
    /\ now - hist.waitStart >= limit

\* C10: a go() of a callable on an unfrozen group whose context is cancelled
\* returns no error and registers nothing; only registered calls ever run.
C10_CancelledGoIsNoOp ==
    /\ hist.cancelledGo.err \in {None, "ok"}
    /\ ~hist.cancelledGo.grew
    /\ Len(hist.given) = Len(calls)
    /\ \A k \in 1..MaxCalls : task[k] # None => k <= Len(calls)

\* A call was registered, the context was cancelled, a second go() returned
\* without an error, and wait() ran with the one call.
C10_Witness ==
    /\ hist.cancelledGo.err = "ok"
    /\ Len(calls) = 1
    /\ Returned

\* C11: wait() on a group with no registered call leaves the limiter alone,
\* makes no queue and starts no worker and no task, and returns the empty
\* sequence without an error, whatever the cap, the rate and the burst.
C11_EmptyWaitReturnsEmpty ==
    (frozen /\ Len(calls) = 0) =>
        /\ pc \in {"script", "close", "join"}
        /\ hist.admitted = 0
        /\ tokens = burst * limit /\ last = 0
        /\ ~queue.made
        /\ \A w \in DOMAIN worker : worker[w].st = None
        /\ \A k \in DOMAIN task : task[k] = None
        /\ Returned => (waitRet.err = None /\ waitRet.val = <<>>)

\* wait() has returned from a group without calls whose limiter would refuse
\* any token (burst 0) and whose context is cancelled.
C11_Witness ==
    /\ Returned /\ Len(calls) = 0 /\ waitRet.val = <<>> /\ waitRet.err = None
    /\ limit # 0 /\ burst = 0 /\ cap > 0 /\ hist.waits = 1

\* C12: group() given an "every" string that is no strictly positive
\* duration (unparseable, zero or negative) fails and makes no group; a
\* strictly positive one makes a rate-limited group.
C12_OnlyPositiveEveryMakesGroup ==
    /\ (everyArg.kind = "bad" \/ (everyArg.kind = "duration" /\ everyArg.d <= 0))
           => pc = "failed"
    /\ (everyArg.kind = "duration" /\ everyArg.d > 0)
           => (pc # "failed" /\ limit = everyArg.d)

C14_WaitReturnsAfterAllBodies ==
    Returned => \A k \in 1..MaxCalls : task[k] \in {None, "done"}

\* C15: once a call's function has returned an error the dispatch loop
\* dispatches no further call: the calls dispatched stay those dispatched
\* when the first error was returned (shown for calls without keywords).
C15_NoDispatchAfterError ==
    (hist.atErr >= 0 /\ \A k \in 1..Len(calls) : calls[k].kwargs = <<>>)
        => Dispatched <= hist.atErr

\* C16: wait() on a group made with a cap n > 0 that has a call closes the
\* queue, after its last dispatch and on every path by which it returns, so
\* that no pool goroutine stays blocked on the queue after wait() returned;
\* stated here for the path on which wait() returns the results.
C16_QueueClosedOnReturn ==
    (cap > 0 /\ Len(calls) >= 1 /\ Returned /\ waitRet.err = None) =>
        /\ queue.made /\ queue.closed
        /\ \A w \in DOMAIN worker : worker[w].st \in {None, "exited"}

\* The pool goroutines wait() has started.
Workers == {w \in DOMAIN worker : worker[w].st # None}

\* C17: when all k calls are dispatched, a group made with a cap n > 0 has
\* started min(n, k) pool goroutines over one queue; a group made without a
\* cap has started one goroutine per call and no queue.
C17_PoolOfMinCapCalls ==
    (Len(calls) >= 1 /\ i > Len(calls)) =>
        IF cap > 0
        THEN /\ Cardinality(Workers)
                   = (IF cap < Len(calls) THEN cap ELSE Len(calls))
             /\ queue.made
        ELSE /\ Workers = {}
             /\ Dispatched = Len(calls)
             /\ ~queue.made

\* C18: every wait() eventually returns when the calls' functions terminate:
\* a wait() that has not returned yet is never left without a way to return,
\* that is, the program has not died under it.
C18_WaitCanStillReturn ==
    (hist.waits = 1 /\ ~Returned) => ~panicked

\* wait() returned the context's cancellation from the limiter's wait for
\* call i: neither that call nor a later one is ever invoked.
CancelledAtLimiter ==
    (Returned /\ waitRet.err = "Canceled") =>
        \A k \in i..Len(calls) :
            task[k] = None /\ ~hist.invoked[k].called

\* C19: when the limiter's wait for a call fails on the cancelled context,
\* wait() returns the cancellation and invokes neither that call nor a later
\* one; so a wait() called with calls registered and the context cancelled
\* already invokes no call at all and returns the cancellation.
C19_CancelledWaitInvokesNothing ==
    /\ CancelledAtLimiter
    /\ (hist.ctxAtWait /\ Len(calls) >= 1) =>
          /\ \A k \in 1..Len(calls) : task[k] = None /\ ~hist.invoked[k].called
          /\ Returned => waitRet.err = "Canceled"

\* C20: a registered call's function is invoked at most once, and exactly
\* once when wait() returns the results; slot k of the results is written at
\* most once and by call k only; the results have one slot per registered
\* call.
C20_OneInvocationOneWrite ==
    /\ \A k \in 1..MaxCalls :
          /\ hist.invocations[k] <= 1
          /\ k > Len(calls) => hist.invocations[k] = 0
          /\ hist.writes[k] \in {<<>>, <<k>>}
    /\ frozen => Len(elems) = Len(calls)
    /\ (Returned /\ waitRet.err = None) =>
          /\ Len(waitRet.val) = Len(calls)
          /\ \A k \in 1..Len(calls) : hist.invocations[k] = 1

\* wait() returned the results of MaxCalls calls of which the last
\* registered ended first, each invoked once and each the one writer of
\* its slot.
C20_Witness ==
    /\ Returned /\ waitRet.err = None
    /\ Len(calls) = MaxCalls
    /\ Len(hist.order) = MaxCalls /\ hist.order[1] = MaxCalls
    /\ \A k \in 1..MaxCalls :
          hist.invocations[k] = 1 /\ hist.writes[k] = <<k>>

====
